---------------------------- MODULE Spec2Model ----------------------------
(***************************************************************************)
(* The incremental talks fetcher of db/dharmaseed_scrape_talks.py, the      *)
(* proxy of server.py and db/generate_redirects.py.                        *)
(*                                                                         *)
(* Spec      runs of main(): fresh start, load, listing, diff, cap, the    *)
(*           fetch loop with its checkpoints, the final save, and a kill   *)
(*           of the process between two steps or inside a write of the     *)
(*           file.  One loop iteration is one step; fetch_talk_details is  *)
(*           evaluated as a whole.                                         *)
(* SpecRetry the fetch loop at the granularity of one HTTP request, for    *)
(*           the retry policy of fetch_talk_details.                       *)
(* SpecProxy the requests ProxyHandler handles, one handler call a step.   *)
(* SpecRedirects  the loop of generate_redirects, one teacher a step, and  *)
(*           the sort and write after it.                                  *)
(*                                                                         *)
(* The snapshot file is modelled by its parsed JSON value: json.dump and   *)
(* json.load of a list of flat dicts of scalars give back the same list.   *)
(* A record is [id, title]; title stands for every field but the id.       *)
(***************************************************************************)
EXTENDS Integers, Sequences, FiniteSets, TLC

\* ------------------------------------------------------------ bounds
\* Remote ids are 1..MaxId, a listing holds at most MaxRemote of them, and
\* main is run at most MaxRuns times.
MaxId == 2
MaxRemote == 3
MaxRuns == 2
\* generate_redirects reads at most MaxTeachers teachers, with ids up to
\* MaxTeacherId and names of at most MaxNameLen characters.
MaxTeachers == 3
MaxTeacherId == 2
MaxNameLen == 2

\* def fetch_talk_details(talk_id, max_retries = 5)
max_retries == 5

IDs == 1..MaxId

\* ------------------------------------------------------------ data
\* A record is [id, title].  title is "a" in the records a first run finds in
\* the file and "b" in what the detail endpoint serves.

\* A detail payload: the JSON object of the detail endpoint.  empty is the
\* object {} (falsy in Python); has_id tells whether it has an "id" key.
EmptyPayload == [empty |-> TRUE, has_id |-> FALSE, id |-> 0, title |-> "b"]
Payloads ==
    {EmptyPayload}
    \cup [empty : {FALSE}, has_id : {TRUE}, id : IDs, title : {"b"}]
    \cup [empty : {FALSE}, has_id : {FALSE}, id : {0}, title : {"b"}]

\* Optional[Dict]: None, or a payload.
None == [some |-> FALSE, data |-> EmptyPayload]
Some(p) == [some |-> TRUE, data |-> p]

\* One HTTP answer of the detail endpoint: 429, a RequestException (raised by
\* SESSION.get or by raise_for_status), or a success carrying a payload.
Responses ==
    [kind : {"r429", "error"}, body : {EmptyPayload}]
    \cup [kind : {"ok"}, body : Payloads]

\* The snapshot file: absent; malformed, when reading it raises JSONDecodeError
\* or KeyError; unloadable, when reading it raises another exception (bytes
\* that are not UTF-8, JSON that is not a list of objects); or a list of
\* records.
Absent == [kind |-> "absent", talks |-> <<>>]
Malformed == [kind |-> "malformed", talks |-> <<>>]
Unloadable == [kind |-> "unloadable", talks |-> <<>>]
FileOf(talks) == [kind |-> "ok", talks |-> talks]

IdsOf(s) == {s[k].id : k \in DOMAIN s}
UniqueIds(s) == \A j, k \in DOMAIN s : s[j].id = s[k].id => j = k

\* ------------------------------------------------------------ helpers
\* list.sort(key=lambda t: t['id'], reverse=True): stable, so records with
\* equal ids keep their order.
InsertDesc(s, r) ==
    LET before == {k \in DOMAIN s : s[k].id >= r.id}
        n == Cardinality(before)
    IN  SubSeq(s, 1, n) \o <<r>> \o SubSeq(s, n + 1, Len(s))

RECURSIVE SortFrom(_, _)
SortFrom(acc, s) ==
    IF s = <<>> THEN acc ELSE SortFrom(InsertDesc(acc, Head(s)), Tail(s))

SortByIdDesc(s) == SortFrom(<<>>, s)

IsSortedDesc(s) == \A k \in 1..(Len(s) - 1) : s[k].id >= s[k + 1].id

\* raises: the exception is not one of those the except clause catches.
load_existing_talks(f) ==
    IF f.kind = "ok"
    THEN [raises |-> FALSE, talks |-> f.talks, ids |-> IdsOf(f.talks)]
    ELSE [raises |-> f.kind = "unloadable", talks |-> <<>>, ids |-> {}]

parse_talk(data) ==
    [id |-> IF data.has_id THEN data.id ELSE 0, title |-> data.title]

save_talks_to_json(talks) == FileOf(talks)

\* [tid for tid in all_ids if tid not in existing_ids]
FilterNew(all_ids, ids) == SelectSeq(all_ids, LAMBDA t : t \notin ids)

\* limit = args.limit if args.limit > 0 else None; new_ids[:limit]
ApplyLimit_off(ids, lim) == ids
ApplyLimit(ids, lim) ==
    IF lim > 0 /\ lim < Len(ids) THEN SubSeq(ids, 1, lim) ELSE ids

\* existing_talks + new_talks, sorted by id descending
Merge_new_only(existing, new) == SortByIdDesc(new)
Merge_by_id(existing, new) ==
    SortByIdDesc(SelectSeq(existing, LAMBDA r : r.id \notin IdsOf(new)) \o new)
Merge(existing, new) == SortByIdDesc(existing \o new)

\* if not new_ids: return existing_talks
EarlyReturn_sorted(existing) == SortByIdDesc(existing)
EarlyReturn(existing) == existing

\* if (i + 1) % save_interval == 0, with i the index of the id in new_ids and
\* fetched the number of talks fetched so far
CheckpointDue_by_fetched(idx, fetched, si) == fetched % si = 0
CheckpointDue(idx, fetched, si) == (idx + 1) % si = 0

\* Where the loop goes after an id: on to the next one, or out of the loop.
\* got tells whether the id's details were fetched.
AfterId_abort_on_failure(got, last) ==
    IF ~got THEN "aborted" ELSE IF last THEN "final" ELSE "loop"
AfterId(got, last) == IF last THEN "final" ELSE "loop"

\* ------------------------------------------------------------ retry policy
\* One pass of the body of the retry loop of fetch_talk_details, in the state
\* st = [attempt, done, ret, slept, nreq] on the answer resp.
AttemptStep_fixed_wait(st, resp) ==
    LET st1 == [st EXCEPT !.nreq = @ + 1, !.attempt = @ + 1]
    IN  IF resp.kind = "r429"
        THEN [st1 EXCEPT !.slept = Append(@, 5)]
        ELSE IF resp.kind = "ok"
        THEN [st1 EXCEPT !.done = TRUE, !.ret = Some(resp.body)]
        ELSE IF st.attempt = max_retries - 1
        THEN st1
        ELSE [st1 EXCEPT !.slept = Append(@, 2)]

AttemptStep(st, resp) ==
    LET st1 == [st EXCEPT !.nreq = @ + 1, !.attempt = @ + 1]
    IN  IF resp.kind = "r429"
        THEN [st1 EXCEPT !.slept = Append(@, (st.attempt + 1) * 5)]
        ELSE IF resp.kind = "ok"
        THEN [st1 EXCEPT !.done = TRUE, !.ret = Some(resp.body)]
        ELSE IF st.attempt = max_retries - 1
        THEN st1
        ELSE [st1 EXCEPT !.slept = Append(@, 2)]

RetryInit == [attempt |-> 0, done |-> FALSE, ret |-> None, slept |-> <<>>, nreq |-> 0]

\* for attempt in range(max_retries): ... ; return None
RetryOver_on_success_only(st) == st.done
RetryOver(st) == st.done \/ st.attempt >= max_retries

RECURSIVE RetryLoop(_, _)
RetryLoop(st, script) ==
    IF RetryOver(st) \/ script = <<>>
    THEN st
    ELSE RetryLoop(AttemptStep(st, Head(script)), Tail(script))

\* script: the answers the endpoint gives, one per request.
fetch_talk_details(script) == RetryLoop(RetryInit, script)


\* ------------------------------------------------------------ inputs
\* The answer of the listing endpoint: a failure (the call raises, or
\* raise_for_status does), or the "items" of the JSON object.
RECURSIVE SeqsUpTo(_, _)
SeqsUpTo(S, n) ==
    IF n = 0 THEN {<<>>}
    ELSE LET shorter == SeqsUpTo(S, n - 1)
         IN  shorter \cup {Append(s, x) : s \in shorter, x \in S}

Listings ==
    {[ok |-> FALSE, items |-> <<>>]}
    \cup [ok : {TRUE}, items : SeqsUpTo(IDs, MaxRemote)]

\* --limit and --save-interval (a positive number of talks).  The command
\* line is the same in every run but for --fresh.
Limits == 0..(MaxRemote - 1)
SaveIntervals == 1..(MaxRemote - 1)

\* The answers one call of fetch_talk_details gets: failures of one kind
\* and then a success, or max_retries failures.
Fails(n, bad) == [k \in 1..n |-> [kind |-> bad, body |-> EmptyPayload]]
DetailScripts ==
    {Fails(n, "r429") \o <<[kind |-> "ok", body |-> p]>> : n \in {0, 1}, p \in Payloads}
    \cup {Fails(max_retries, bad) : bad \in {"r429", "error"}}

\* Snapshot files a first run can find: none, one that does not load, or a
\* list of records with distinct ids, in any order.
InitialFiles ==
    {Absent, Malformed, Unloadable}
    \cup {FileOf(s) : s \in {t \in SeqsUpTo([id : IDs, title : {"a"}], MaxId) : UniqueIds(t)}}

\* ------------------------------------------------------------ the proxy (server.py)
\* A path is a sequence of characters; the remote base is one piece of text.
DHARMASEED_BASE == <<"https://www.dharmaseed.org">>
FeedsPrefix == <<"/", "f", "e", "e", "d", "s", "/">>
ApiPrefix == <<"/", "a", "p", "i", "/">>
ApiBase == <<"/", "a", "p", "i", "/", "1", "/">>

\* str.startswith and the slice s[n:]
StartsWith(s, prefix) ==
    Len(s) >= Len(prefix) /\ SubSeq(s, 1, Len(prefix)) = prefix
Drop(s, n) == SubSeq(s, n + 1, Len(s))

\* Request paths: a head, with or without the prefixes, and a tail.
PathHeads ==
    {FeedsPrefix, ApiPrefix, ApiBase,
     <<"/", "f", "e", "e", "d", "s">>, <<"/", "a", "p", "i">>,
     <<"/", "a", "p", "i", "x", "/">>, <<"/", "x">> \o ApiPrefix, <<"/", "x">> \o FeedsPrefix,
     <<"/">>}
PathTails == {<<>>, <<"t", "/", "5", "/">>}
Paths == {h \o t : h \in PathHeads, t \in PathTails}

\* The local client's request.  clen is its Content-Length header: none, one
\* that int() rejects, one that is not positive, or a positive one, with
\* which a body comes; ctype is its Content-Type header.
Requests ==
    [command : {"GET", "POST", "OPTIONS"}, path : Paths,
     clen : {"none", "invalid", "zero"}, ctype : {"none"}, body : {""}]
    \cup [command : {"GET", "POST", "OPTIONS"}, path : Paths,
          clen : {"positive"}, ctype : {"none", "application/json"}, body : {"q=1"}]
NoRequest == [command |-> "none", path |-> <<>>, clen |-> "none", ctype |-> "none", body |-> ""]

\* What urlopen does with a request: it returns a response (2xx, with or
\* without a Content-Type), raises HTTPError (code, reason), or raises
\* another exception (text).
Remotes ==
    [kind : {"ok"}, code : {200, 201}, ctype : {"none", "application/json"},
     text : {""}, data : {"d"}]
    \cup {[kind |-> "http_error", code |-> 404, ctype |-> "none", text |-> "Not Found", data |-> ""],
          [kind |-> "http_error", code |-> 503, ctype |-> "none", text |-> "Service Unavailable", data |-> ""],
          [kind |-> "exception", code |-> 0, ctype |-> "none", text |-> "timed out", data |-> ""]}
NoRemote == [kind |-> "none", code |-> 0, ctype |-> "none", text |-> "", data |-> ""]

\* A response to the local client: status line, Content-Type, the
\* Access-Control-Allow-Origin header, the other two CORS headers, body.
\* send_error(code, message): an error page, without CORS headers.
send_error(code, message) ==
    [status |-> code, message |-> message, ctype |-> "text/html;charset=utf-8",
     allow_origin |-> "none", preflight |-> FALSE, body |-> "error page"]

\* The result of a handler: the targets it called proxy_request with, the
\* requests sent to the remote, and the responses sent to the client.
Handled(targets, sent, responses) ==
    [routed |-> targets, upstream |-> sent, reply |-> responses]

\* What proxy_request answers on what urlopen gave.
Relay_status_500(rem) ==
    IF rem.kind = "ok"
    THEN [status |-> 200, message |-> "OK",
          ctype |-> IF rem.ctype = "none" THEN "application/octet-stream" ELSE rem.ctype,
          allow_origin |-> "*", preflight |-> FALSE, body |-> rem.data]
    ELSE send_error(500, rem.text)
Relay(rem) ==
    IF rem.kind = "ok"
    THEN [status |-> 200, message |-> "OK",
          ctype |-> IF rem.ctype = "none" THEN "application/octet-stream" ELSE rem.ctype,
          allow_origin |-> "*", preflight |-> FALSE, body |-> rem.data]
    ELSE IF rem.kind = "http_error"
    THEN send_error(rem.code, rem.text)
    ELSE send_error(500, rem.text)

\* proxy_request(target_url) on the request req, urlopen giving rem.
proxy_request(target_url, req, rem) ==
    IF req.clen = "invalid"
    THEN Handled(<<target_url>>, <<>>, <<send_error(500, "invalid literal for int()")>>)
    ELSE LET body == IF req.clen = "positive" THEN req.body ELSE ""
             sent == [url |-> target_url,
                      data |-> body,
                      ctype |-> IF body = "" THEN "none"
                                ELSE IF req.ctype = "none"
                                THEN "application/x-www-form-urlencoded"
                                ELSE req.ctype]
         IN  Handled(<<target_url>>, <<sent>>, <<Relay(rem)>>)

\* SimpleHTTPRequestHandler.do_GET: the file under the static root, or 404.
StaticResponse(exists) ==
    IF exists
    THEN [status |-> 200, message |-> "OK", ctype |-> "static",
          allow_origin |-> "none", preflight |-> FALSE, body |-> "file"]
    ELSE send_error(404, "File not found")

\* The target url of a path under /api/.
ApiTarget(path) == DHARMASEED_BASE \o ApiBase \o Drop(path, 5)

GET(req, rem, exists) ==
    IF StartsWith(req.path, FeedsPrefix)
    THEN proxy_request(DHARMASEED_BASE \o req.path, req, rem)
    ELSE IF StartsWith(req.path, ApiPrefix)
    THEN proxy_request(ApiTarget(req.path), req, rem)
    ELSE Handled(<<>>, <<>>, <<StaticResponse(exists)>>)

POST(req, rem) ==
    IF StartsWith(req.path, ApiPrefix)
    THEN proxy_request(ApiTarget(req.path), req, rem)
    ELSE Handled(<<>>, <<>>, <<send_error(404, "Not Found")>>)

PreflightResponse ==
    [status |-> 200, message |-> "OK", ctype |-> "none",
     allow_origin |-> "*", preflight |-> TRUE, body |-> ""]

OPTIONS(req) == Handled(<<>>, <<>>, <<PreflightResponse>>)

\* ------------------------------------------------------------ redirects (db/generate_redirects.py)
\* Text is a sequence of characters.
NameChars == {"a", "A", "1", "-", " "}

\* str.lower()
Lower(c) == IF c = "A" THEN "a" ELSE c
\* [a-z0-9\s] and \s, on the characters at hand
IsAlnumOrSpace(c) == c \in {"a", "1", "2", " "}
IsSpace(c) == c = " "

\* slugify(name): lower case, keep letters, digits and spaces, drop spaces.
slugify(name) ==
    LET lowered == [k \in DOMAIN name |-> Lower(name[k])]
        kept == SelectSeq(lowered, IsAlnumOrSpace)
    IN  SelectSeq(kept, LAMBDA c : ~IsSpace(c))

\* str(n) of a natural number.
Digits == <<"0", "1", "2", "3", "4", "5", "6", "7", "8", "9">>
RECURSIVE Str(_)
Str(n) == IF n < 10 THEN <<Digits[n + 1]>> ELSE Str(n \div 10) \o <<Digits[(n % 10) + 1]>>

\* f"/{slug}  /#teacher/{tid}  302"
RedirectLine(slug, tid) ==
    <<"/">> \o slug \o <<" ", " ", "/", "#", "t", "e", "a", "c", "h", "e", "r", "/">>
    \o Str(tid) \o <<" ", " ", "3", "0", "2">>

\* The order of the characters of a line (their code points).
Ord(c) ==
    CASE c = " " -> 32 [] c = "#" -> 35 [] c = "/" -> 47
      [] c \in {"0", "1", "2", "3", "4", "5", "6", "7", "8", "9"}
           -> 47 + (CHOOSE n \in 1..10 : Digits[n] = c)
      [] OTHER -> 97 + (CHOOSE n \in 0..25 :
                          <<"a", "b", "c", "d", "e", "f", "g", "h", "i", "j", "k", "l", "m",
                            "n", "o", "p", "q", "r", "s", "t", "u", "v", "w", "x", "y", "z">>[n + 1] = c)

\* x <= y as Python orders str.
RECURSIVE StrLeq(_, _)
StrLeq(x, y) ==
    IF x = <<>> THEN TRUE
    ELSE IF y = <<>> THEN FALSE
    ELSE IF Head(x) = Head(y) THEN StrLeq(Tail(x), Tail(y))
    ELSE Ord(Head(x)) < Ord(Head(y))

\* redirects.sort()
InsertLine(lines, x) ==
    LET before == Cardinality({k \in DOMAIN lines : StrLeq(lines[k], x)})
    IN  SubSeq(lines, 1, before) \o <<x>> \o SubSeq(lines, before + 1, Len(lines))
RECURSIVE SortLinesFrom(_, _)
SortLinesFrom(acc, lines) ==
    IF lines = <<>> THEN acc ELSE SortLinesFrom(InsertLine(acc, Head(lines)), Tail(lines))
SortLines(lines) == SortLinesFrom(<<>>, lines)

\* The teachers of dharmaseed_teachers.json: name, id (0: none) and
\* talk_count, whatever they are.
Teachers ==
    [name : SeqsUpTo(NameChars, MaxNameLen), id : 0..MaxTeacherId, talk_count : {0, 1}]

\* if slug in used_slugs: slug = f"{slug}{tid}"
Deduplicate(slug, tid, used) == IF slug \in used THEN slug \o Str(tid) ELSE slug

\* ------------------------------------------------------------ state
VARIABLES
    file,            \* the snapshot file
    pc,              \* where the process is: idle, loop, final, done, aborted, crashed, killed
    fresh, limit, save_interval,                 \* the arguments of the run
    existing_talks, existing_ids,                \* load_existing_talks' result
    new_ids, i, new_talks, failed_count,         \* locals of fetch_talks_incremental
    all_talks,                                   \* its return value (talks in main)
    rs, answers,     \* fetch_talk_details in progress (SpecRetry): its state, the answers so far
    \* history of the run, read by the properties only
    runs,            \* runs started
    n_new,           \* len(new_ids) before the cap
    skipped,         \* listed ids left out of new_ids as already present
    covered,         \* the listing held no id absent from the snapshot main found
    requested,       \* ids fetch_talk_details was called with, in order
    writes,          \* calls of save_talks_to_json in this run
    ckpt_ids,        \* ids of the new records the run's latest checkpoint wrote
    resume,          \* ckpt_ids of a run killed after a checkpoint, during the run after it
    streak, base, plain,  \* consecutive completed runs with covered, the file before them, none of them fresh
    \* the proxy of server.py: the exchange ProxyHandler handled last
    request,         \* the local client's request: command, path, headers, body
    remote,          \* what urlopen gave for it, or would have
    routed,          \* the target urls proxy_request was called with
    upstream,        \* the requests sent to the remote
    reply,           \* the responses sent to the local client
    \* generate_redirects
    used_slugs,      \* dict slug -> teacher id
    redirects,       \* the lines of the rules, as appended and then sorted
    n_teachers,      \* teachers the loop has gone through
    redirects_file   \* the lines written to _redirects, once written

run_vars == <<fresh, limit, save_interval, existing_talks, existing_ids,
              new_ids, i, new_talks, failed_count, all_talks>>
retry_vars == <<rs, answers>>
hist_vars == <<runs, n_new, skipped, covered, requested, writes, ckpt_ids, resume,
               streak, base, plain>>
proxy_vars == <<request, remote, routed, upstream, reply>>
redirect_vars == <<used_slugs, redirects, n_teachers, redirects_file>>
other_vars == <<proxy_vars, redirect_vars>>
vars == <<file, pc, run_vars, retry_vars, hist_vars, other_vars>>

\* No request handled yet.
ProxyIdle ==
    /\ request = NoRequest /\ remote = NoRemote
    /\ routed = <<>> /\ upstream = <<>> /\ reply = <<>>

\* generate_redirects not started: used_slugs = {}, redirects = [].
RedirectsIdle ==
    /\ used_slugs = <<>> /\ redirects = <<>>
    /\ n_teachers = 0 /\ redirects_file = <<>>

Init ==
    /\ file \in InitialFiles
    /\ pc = "idle"
    /\ fresh = FALSE /\ limit \in Limits /\ save_interval \in SaveIntervals
    /\ existing_talks = <<>> /\ existing_ids = {}
    /\ new_ids = <<>> /\ i = 0 /\ new_talks = <<>> /\ failed_count = 0
    /\ all_talks = <<>>
    /\ rs = RetryInit /\ answers = <<>>
    /\ runs = 0 /\ n_new = 0 /\ skipped = {} /\ covered = FALSE
    /\ requested = <<>> /\ writes = 0 /\ ckpt_ids = {} /\ resume = {}
    /\ streak = 0 /\ base = Absent /\ plain = TRUE
    /\ ProxyIdle
    /\ RedirectsIdle

\* ------------------------------------------------------------ main
\* if args.fresh and os.path.exists(args.output): os.remove(args.output)
FreshStart(f, fl) == IF fl /\ f.kind # "absent" THEN Absent ELSE f

\* main() up to the fetch loop: fresh start (fl is --fresh), load, listing,
\* diff, cap, and the early return when nothing is new.  lst is the listing
\* endpoint's answer.
Main(fl, lst) ==
    LET file1 == FreshStart(file, fl)
        loaded == load_existing_talks(file1)
        found == FilterNew(lst.items, loaded.ids)
        capped == ApplyLimit(found, limit)
        cov == IdsOf([k \in DOMAIN lst.items |-> [id |-> lst.items[k]]])
                   \subseteq load_existing_talks(file).ids
        cont == pc = "done" /\ streak >= 1 /\ cov
    IN  /\ pc \in {"idle", "done", "aborted", "crashed", "killed"}
        /\ runs < MaxRuns
        /\ ~loaded.raises
        /\ runs' = runs + 1
        /\ file' = file1
        /\ fresh' = fl
        /\ UNCHANGED <<limit, save_interval>>
        /\ existing_talks' = (IF lst.ok THEN loaded.talks ELSE <<>>)
        /\ existing_ids' = (IF lst.ok THEN loaded.ids ELSE {})
        /\ new_ids' = capped
        /\ i' = 0 /\ new_talks' = <<>> /\ failed_count' = 0
        /\ all_talks' = (IF lst.ok /\ capped = <<>> THEN EarlyReturn(loaded.talks) ELSE <<>>)
        /\ pc' = (IF ~lst.ok THEN "aborted" ELSE IF capped = <<>> THEN "final" ELSE "loop")
        /\ n_new' = Len(found)
        /\ skipped' = {lst.items[k] : k \in DOMAIN lst.items} \cap loaded.ids
        /\ covered' = (lst.ok /\ cov)
        /\ requested' = <<>> /\ writes' = 0 /\ ckpt_ids' = {}
        /\ resume' = (IF lst.ok THEN resume ELSE {})
        /\ streak' = (IF lst.ok /\ cont THEN streak ELSE 0)
        /\ base' = (IF ~lst.ok \/ ~cov THEN Absent ELSE IF cont THEN base ELSE file)
        /\ plain' = (IF ~lst.ok \/ ~cov THEN TRUE ELSE (IF cont THEN plain ELSE TRUE) /\ ~fl)
        /\ UNCHANGED <<retry_vars, other_vars>>

\* One iteration of the fetch loop, fetch_talk_details having returned result:
\* tally, checkpoint, and after the last id the merge and sort of the return.
LoopBody(result) ==
    LET talk_id == new_ids[i + 1]
        got == result.some /\ ~result.data.empty
        new1 == IF got THEN Append(new_talks, parse_talk(result.data)) ELSE new_talks
        checkpoint == CheckpointDue(i, Len(new1), save_interval)
        last == i + 1 = Len(new_ids)
    IN  /\ new_talks' = new1
        /\ failed_count' = (IF got THEN failed_count ELSE failed_count + 1)
        /\ file' = (IF checkpoint
                    THEN save_talks_to_json(Merge(existing_talks, new1))
                    ELSE file)
        /\ i' = i + 1
        /\ pc' = AfterId(got, last)
        /\ all_talks' = (IF last THEN Merge(existing_talks, new1) ELSE all_talks)
        /\ requested' = Append(requested, talk_id)
        /\ writes' = (IF checkpoint THEN writes + 1 ELSE writes)
        /\ ckpt_ids' = (IF checkpoint THEN IdsOf(new1) ELSE ckpt_ids)
        /\ UNCHANGED <<fresh, limit, save_interval, existing_talks, existing_ids, new_ids>>
        /\ UNCHANGED <<runs, n_new, skipped, covered, resume, streak, base, plain>>
        /\ UNCHANGED other_vars

\* load_existing_talks raises: the exception leaves fetch_talks_incremental
\* and main, before the listing is asked for.
LoadRaises ==
    \E fl \in BOOLEAN :
        LET file1 == FreshStart(file, fl)
        IN  /\ pc \in {"idle", "done", "aborted", "crashed", "killed"}
            /\ runs < MaxRuns
            /\ load_existing_talks(file1).raises
            /\ runs' = runs + 1
            /\ file' = file1
            /\ fresh' = fl
            /\ pc' = "crashed"
            /\ existing_talks' = <<>> /\ existing_ids' = {}
            /\ new_ids' = <<>> /\ i' = 0 /\ new_talks' = <<>> /\ failed_count' = 0
            /\ all_talks' = <<>>
            /\ n_new' = 0 /\ skipped' = {} /\ covered' = FALSE
            /\ requested' = <<>> /\ writes' = 0 /\ ckpt_ids' = {} /\ resume' = {}
            /\ streak' = 0 /\ base' = Absent /\ plain' = TRUE
            /\ UNCHANGED <<limit, save_interval, retry_vars, other_vars>>

Start ==
    \E fl \in BOOLEAN, lst \in Listings : lst.ok /\ Main(fl, lst)

ListingFails ==
    \E fl \in BOOLEAN, lst \in Listings : ~lst.ok /\ Main(fl, lst)

FetchStep ==
    /\ pc = "loop"
    /\ \E script \in DetailScripts : LoopBody(fetch_talk_details(script).ret)
    /\ UNCHANGED retry_vars

\* save_talks_to_json(talks, args.output) at the end of main
FinalSave_unless_nothing_new ==
    /\ pc = "final"
    /\ file' = (IF new_ids = <<>> THEN file ELSE save_talks_to_json(all_talks))
    /\ pc' = "done"
    /\ writes' = (IF new_ids = <<>> THEN writes ELSE writes + 1)
    /\ resume' = {}
    /\ streak' = (IF covered THEN (IF streak >= 2 THEN 2 ELSE streak + 1) ELSE 0)
    /\ UNCHANGED <<run_vars, retry_vars, other_vars>>
    /\ UNCHANGED <<runs, n_new, skipped, covered, requested, ckpt_ids, base, plain>>

FinalSave ==
    /\ pc = "final"
    /\ file' = save_talks_to_json(all_talks)
    /\ pc' = "done"
    /\ writes' = writes + 1
    /\ resume' = {}
    /\ streak' = (IF covered THEN (IF streak >= 2 THEN 2 ELSE streak + 1) ELSE 0)
    /\ UNCHANGED <<run_vars, retry_vars, other_vars>>
    /\ UNCHANGED <<runs, n_new, skipped, covered, requested, ckpt_ids, base, plain>>

\* The process is killed inside the loop or before the final save, outside
\* save_talks_to_json.
Interrupt ==
    /\ pc \in {"loop", "final"}
    /\ pc' = "killed"
    /\ resume' = (IF writes >= 1 THEN ckpt_ids ELSE {})
    /\ streak' = 0 /\ base' = Absent /\ plain' = TRUE
    /\ UNCHANGED <<file, run_vars, retry_vars, other_vars>>
    /\ UNCHANGED <<runs, n_new, skipped, covered, requested, writes, ckpt_ids>>

\* with open(filename, 'w') as f: json.dump(talks, f): open truncates the
\* file and json.dump writes it piece by piece.  A process killed in between
\* leaves an empty file, or the beginning of the JSON text: json.load of it
\* raises JSONDecodeError.
TornFile == Malformed

\* The process is killed inside the save_talks_to_json of a checkpoint: the
\* id's details were asked for, the iteration is not over.
KilledInCheckpoint ==
    /\ pc = "loop"
    /\ CheckpointDue(i, Len(new_talks), save_interval)
    /\ \E script \in DetailScripts :
          LET result == fetch_talk_details(script).ret
              got == result.some /\ ~result.data.empty
          IN  /\ new_talks' = (IF got THEN Append(new_talks, parse_talk(result.data))
                               ELSE new_talks)
              /\ failed_count' = (IF got THEN failed_count ELSE failed_count + 1)
    /\ requested' = Append(requested, new_ids[i + 1])
    /\ file' = TornFile
    /\ pc' = "killed"
    /\ resume' = (IF writes >= 1 THEN ckpt_ids ELSE {})
    /\ streak' = 0 /\ base' = Absent /\ plain' = TRUE
    /\ UNCHANGED <<fresh, limit, save_interval, existing_talks, existing_ids, new_ids, i,
                   all_talks, retry_vars, other_vars>>
    /\ UNCHANGED <<runs, n_new, skipped, covered, writes, ckpt_ids>>

\* The process is killed inside the save_talks_to_json at the end of main.
KilledInFinalSave ==
    /\ pc = "final"
    /\ file' = TornFile
    /\ pc' = "killed"
    /\ resume' = (IF writes >= 1 THEN ckpt_ids ELSE {})
    /\ streak' = 0 /\ base' = Absent /\ plain' = TRUE
    /\ UNCHANGED <<run_vars, retry_vars, other_vars>>
    /\ UNCHANGED <<runs, n_new, skipped, covered, requested, writes, ckpt_ids>>

Next ==
    \/ LoadRaises \/ Start \/ ListingFails \/ FetchStep \/ FinalSave
    \/ Interrupt \/ KilledInCheckpoint \/ KilledInFinalSave

Spec == Init /\ [][Next]_vars

\* ------------------------------------------------------------ the loop, request by request
\* The fetch loop of a first run on an absent file, uncapped: the listing's
\* ids are all new.
InitRetry ==
    /\ file = Absent
    /\ pc = "loop"
    /\ fresh = FALSE /\ limit = 0 /\ save_interval \in SaveIntervals
    /\ existing_talks = <<>> /\ existing_ids = {}
    /\ new_ids \in SeqsUpTo(IDs, 2) \ {<<>>}
    /\ i = 0 /\ new_talks = <<>> /\ failed_count = 0
    /\ all_talks = <<>>
    /\ rs = RetryInit /\ answers = <<>>
    /\ runs = 1 /\ n_new = Len(new_ids) /\ skipped = {} /\ covered = FALSE
    /\ requested = <<>> /\ writes = 0 /\ ckpt_ids = {} /\ resume = {}
    /\ streak = 0 /\ base = Absent /\ plain = TRUE
    /\ ProxyIdle
    /\ RedirectsIdle

\* One request of fetch_talk_details and the endpoint's answer to it.
Request ==
    /\ pc = "loop"
    /\ ~RetryOver(rs)
    /\ \E resp \in Responses :
        /\ rs' = AttemptStep(rs, resp)
        /\ answers' = Append(answers, resp)
    /\ UNCHANGED <<file, pc, run_vars, hist_vars, other_vars>>

\* fetch_talk_details returns and the loop body runs on its result.
Return ==
    /\ pc = "loop"
    /\ RetryOver(rs)
    /\ LoopBody(rs.ret)
    /\ rs' = RetryInit
    /\ answers' = <<>>

NextRetry == Request \/ Return

SpecRetry == InitRetry /\ [][NextRetry]_vars

\* ------------------------------------------------------------ the proxy, request by request
InitProxy ==
    /\ file = Absent
    /\ pc = "idle"
    /\ fresh = FALSE /\ limit = 0 /\ save_interval = 1
    /\ existing_talks = <<>> /\ existing_ids = {}
    /\ new_ids = <<>> /\ i = 0 /\ new_talks = <<>> /\ failed_count = 0
    /\ all_talks = <<>>
    /\ rs = RetryInit /\ answers = <<>>
    /\ runs = 0 /\ n_new = 0 /\ skipped = {} /\ covered = FALSE
    /\ requested = <<>> /\ writes = 0 /\ ckpt_ids = {} /\ resume = {}
    /\ streak = 0 /\ base = Absent /\ plain = TRUE
    /\ ProxyIdle
    /\ RedirectsIdle

\* The handler has handled req with the result h, urlopen giving rem.
Exchange(req, rem, h) ==
    /\ request' = req
    /\ remote' = (IF h.upstream = <<>> THEN NoRemote ELSE rem)
    /\ routed' = h.routed
    /\ upstream' = h.upstream
    /\ reply' = h.reply
    /\ UNCHANGED <<file, pc, run_vars, retry_vars, hist_vars, redirect_vars>>

do_GET ==
    \E req \in Requests, rem \in Remotes, exists \in BOOLEAN :
        req.command = "GET" /\ Exchange(req, rem, GET(req, rem, exists))

do_POST ==
    \E req \in Requests, rem \in Remotes :
        req.command = "POST" /\ Exchange(req, rem, POST(req, rem))

do_OPTIONS ==
    \E req \in Requests :
        req.command = "OPTIONS" /\ Exchange(req, NoRemote, OPTIONS(req))

NextProxy == do_GET \/ do_POST \/ do_OPTIONS

SpecProxy == InitProxy /\ [][NextProxy]_vars

\* ------------------------------------------------------------ generate_redirects, teacher by teacher
InitRedirects ==
    /\ file = Absent
    /\ pc = "teachers"
    /\ fresh = FALSE /\ limit = 0 /\ save_interval = 1
    /\ existing_talks = <<>> /\ existing_ids = {}
    /\ new_ids = <<>> /\ i = 0 /\ new_talks = <<>> /\ failed_count = 0
    /\ all_talks = <<>>
    /\ rs = RetryInit /\ answers = <<>>
    /\ runs = 0 /\ n_new = 0 /\ skipped = {} /\ covered = FALSE
    /\ requested = <<>> /\ writes = 0 /\ ckpt_ids = {} /\ resume = {}
    /\ streak = 0 /\ base = Absent /\ plain = TRUE
    /\ ProxyIdle
    /\ RedirectsIdle

\* The dict used_slugs is the sequence of its [slug, tid] entries, in the
\* order they were first set; used_slugs[slug] = tid replaces an entry.
UsedSlugs == {used_slugs[k].slug : k \in DOMAIN used_slugs}
SetSlug(slug, tid) ==
    SelectSeq(used_slugs, LAMBDA e : e.slug # slug) \o <<[slug |-> slug, tid |-> tid]>>

\* One iteration of for t in teachers.
TeacherStep(t) ==
    LET slug == slugify(t.name)
        skip == t.talk_count = 0 \/ t.name = <<>> \/ t.id = 0 \/ slug = <<>>
        final == Deduplicate(slug, t.id, UsedSlugs)
    IN  /\ pc = "teachers"
        /\ n_teachers < MaxTeachers
        /\ n_teachers' = n_teachers + 1
        /\ used_slugs' = (IF skip THEN used_slugs ELSE SetSlug(final, t.id))
        /\ redirects' = (IF skip THEN redirects
                         ELSE Append(redirects, RedirectLine(final, t.id)))
        /\ UNCHANGED <<redirects_file, pc>>
        /\ UNCHANGED <<file, run_vars, retry_vars, hist_vars, proxy_vars>>

NextTeacher == \E t \in Teachers : TeacherStep(t)

\* After the last teacher: redirects.sort() and the write of _redirects.
WriteRedirects ==
    /\ pc = "teachers"
    /\ redirects' = SortLines(redirects)
    /\ redirects_file' = SortLines(redirects)
    /\ pc' = "written"
    /\ UNCHANGED <<used_slugs, n_teachers>>
    /\ UNCHANGED <<file, run_vars, retry_vars, hist_vars, proxy_vars>>

NextRedirects == NextTeacher \/ WriteRedirects

SpecRedirects == InitRedirects /\ [][NextRedirects]_vars

\* ------------------------------------------------------------ properties
\* The snapshot a run has produced: what fetch_talks_incremental returned,
\* and once main has saved it, what the file holds.
Produced == IF pc = "done" THEN file.talks ELSE all_talks

\* What a file holds, as records in order; an absent file holds none.
Contents(f) == IF f.kind \in {"malformed", "unloadable"} THEN f ELSE FileOf(f.talks)

\* C1: no-loss merge.  When the run has merged the existing snapshot E and the
\* newly fetched records N, both holding one record per id and sharing no
\* id, the snapshot it produces has the ids of E and of N, each once.
C1_NoLossMerge ==
    (/\ pc \in {"final", "done"}
     /\ UniqueIds(existing_talks) /\ UniqueIds(new_talks)
     /\ IdsOf(existing_talks) \cap IdsOf(new_talks) = {})
    => /\ IdsOf(Produced) = IdsOf(existing_talks) \cup IdsOf(new_talks)
       /\ UniqueIds(Produced)
       /\ Len(Produced) = Len(existing_talks) + Len(new_talks)

C1_Witness ==
    /\ pc = "done"
    /\ Len(existing_talks) = 1 /\ Len(new_talks) = 1 /\ new_talks[1].id = new_ids[1]
    /\ UniqueIds(existing_talks)
    /\ IdsOf(existing_talks) \cap IdsOf(new_talks) = {}

\* C2: snapshot uniqueness.  Starting from an absent snapshot or one whose
\* ids are distinct, every snapshot written to the file holds no two records
\* with the same id.
C2_SnapshotIdsUnique == file.kind = "ok" => UniqueIds(file.talks)

\* C3 as stated: after one completed run, and after a second, whose listing
\* held no id absent from the snapshot, the file holds what it held before
\* the first of them.
C3_Original ==
    (pc = "done" /\ streak >= 1) => Contents(file) = Contents(base)

\* C3, amended: the same, for runs without --fresh on a snapshot file that is
\* absent or loads.
C3_Idempotent ==
    (pc = "done" /\ streak >= 1 /\ plain /\ base.kind # "malformed")
    => Contents(file) = Contents(base)

C3_Witness ==
    /\ pc = "done" /\ streak = 2 /\ plain
    /\ base.kind = "ok" /\ Len(base.talks) = 2 /\ ~IsSortedDesc(base.talks)
    /\ skipped # {}

\* C4: resume correctness.  In the run after one that was killed after a
\* checkpoint and before the end of its final save, no detail request is
\* made for an id the checkpoint wrote a fetched record of.
C4_Original ==
    pc \in {"loop", "final"} => \A k \in DOMAIN requested : requested[k] \notin resume

\* The file holds the merged and sorted state after a step.
Persisted ==
    /\ writes' = writes + 1
    /\ file' = FileOf(SortByIdDesc(existing_talks \o new_talks'))

\* C5 as stated: the merged and sorted state is persisted each time the number
\* of fetched talks reaches a multiple of save_interval.
C5_Original ==
    [][(/\ pc = "loop" /\ i' = i + 1
        /\ Len(new_talks') = Len(new_talks) + 1
        /\ Len(new_talks') % save_interval = 0) => Persisted]_vars

\* C5, amended: the merged and sorted state is persisted each time the number
\* of ids the loop has gone through, fetched or failed, reaches a multiple of
\* save_interval.
C5_CheckpointCadence ==
    [][(pc = "loop" /\ i' = i + 1 /\ i' % save_interval = 0) => Persisted]_vars

C5_Witness ==
    /\ pc = "loop" /\ save_interval = 2
    /\ i = 2 /\ failed_count = 1 /\ Len(new_talks) = 1
    /\ writes = 1 /\ file = FileOf(SortByIdDesc(existing_talks \o new_talks))
    /\ existing_talks # <<>>

\* C6: cap enforcement.  With a cap k > 0 no run calls fetch_talk_details
\* more than k times; a run that went through its loop with more than k new
\* remote ids has called it exactly k times, and with a cap of 0 once for
\* each of the new remote ids.
C6_CapEnforced ==
    /\ limit > 0 => Len(requested) <= limit
    /\ (pc \in {"final", "done"} /\ limit > 0 /\ n_new > limit) => Len(requested) = limit
    /\ (pc \in {"final", "done"} /\ limit = 0) => Len(requested) = n_new

C6_Witness ==
    /\ pc = "done" /\ limit = 2 /\ n_new = 3
    /\ Len(requested) = 2 /\ failed_count = 1

\* The answers so far are n answers 429 and then a success.
RateLimitedThenOk(n) ==
    /\ Len(answers) = n + 1
    /\ \A k \in 1..n : answers[k].kind = "r429"
    /\ answers[n + 1].kind = "ok"

NoSuccess == \A k \in DOMAIN answers : answers[k].kind # "ok"

\* C8: bounded retries.  Whatever the answers, fetch_talk_details makes at
\* most max_retries requests for an id; when none of them succeeded it is over
\* after max_retries of them and returns None, and the loop then counts one
\* failure, adds no record and goes on to the next id, or out of the loop
\* after the last one.
C8_BoundedRetries ==
    /\ [](/\ rs.nreq <= max_retries
          /\ Len(answers) = rs.nreq
          /\ (pc = "loop" /\ ~RetryOver(rs)) => rs.nreq < max_retries
          /\ (NoSuccess /\ rs.nreq = max_retries) => (RetryOver(rs) /\ rs.ret = None)
          /\ (NoSuccess /\ RetryOver(rs)) => rs.nreq = max_retries)
    /\ [][(pc = "loop" /\ NoSuccess /\ RetryOver(rs)) =>
            /\ failed_count' = failed_count + 1
            /\ new_talks' = new_talks
            /\ i' = i + 1
            /\ requested' = Append(requested, new_ids[i + 1])
            /\ pc' = (IF i + 1 < Len(new_ids) THEN "loop" ELSE "final")
            /\ rs' = RetryInit]_vars

C8_Witness ==
    /\ pc = "loop" /\ i = 1 /\ failed_count = 1 /\ new_talks = <<>>
    /\ NoSuccess /\ rs.nreq = max_retries
    /\ \E j, k \in DOMAIN answers : answers[j].kind = "r429" /\ answers[k].kind = "error"

C10_FinalSaveUnconditional ==
    /\ [](pc = "final" => ENABLED FinalSave)
    /\ [][(pc = "final") => (pc' \in {"done", "killed"})]_vars
    /\ [](pc = "done" => (file = FileOf(all_talks) /\ writes >= 1))

C10_Witness ==
    /\ pc = "done" /\ n_new = 0 /\ requested = <<>>
    /\ existing_talks = <<>> /\ file = FileOf(<<>>) /\ writes = 1

\* How many times the record r occurs in s.
Count(s, r) == Cardinality({k \in DOMAIN s : s[k] = r})

\* C11: records are never mutated or dropped by a run.  Every record of the
\* snapshot the run loaded is, field for field and as many times, in the file
\* once the run has written it, at a checkpoint or at the final save, and the
\* run has made no detail request for the id of any of them.
C11_RecordsKept ==
    pc \in {"loop", "final", "done", "killed"} =>
        /\ (writes >= 1 /\ file # TornFile) =>
              /\ file.kind = "ok"
              /\ \A k \in DOMAIN existing_talks :
                    Count(file.talks, existing_talks[k]) >= Count(existing_talks, existing_talks[k])
        /\ \A k \in DOMAIN requested : requested[k] \notin IdsOf(existing_talks)

C11_Witness ==
    /\ pc = "done" /\ ~fresh
    /\ Len(existing_talks) = 1 /\ skipped # {}
    /\ writes = 2 /\ Len(new_talks) = 2
    /\ \E k \in DOMAIN file.talks : file.talks[k] = existing_talks[1]

\* C12: sorted persistence.  Every snapshot a run has written to the file, at
\* a checkpoint or at the final save, the final save of a run with no new
\* id included, is ordered by id descending, whatever the order of the
\* snapshot the run loaded.
C12_SortedPersistence ==
    (writes >= 1 /\ file.kind = "ok") => IsSortedDesc(file.talks)

\* C13: load never fails the run.  No run ends in load_existing_talks.  A
\* run that is past the load of a file that is absent or does not load has an
\* empty collection and an empty id set and has left no listed id out as
\* already present, and a run that loaded nothing leaves in the file the
\* records it has fetched, and nothing else.
C13_LoadNeverFails ==
    /\ pc # "crashed"
    /\ (pc \in {"loop", "final"} /\ file.kind # "ok")
         => (existing_talks = <<>> /\ existing_ids = {} /\ skipped = {})
    /\ (pc = "done" /\ existing_talks = <<>>) => file = FileOf(SortByIdDesc(new_talks))

\* The request handled last is a GET or a POST.
GetOrPost == request.command \in {"GET", "POST"}

\* C14: proxy routing.  A GET or POST whose path starts with /api/ is
\* forwarded to the remote base + /api/1/ + the path without its /api/; one
\* whose path starts with /feeds/ is forwarded to the remote base + the path;
\* any other GET is served from the static root and any other POST gets a
\* not-found response; an OPTIONS gets 200 with the CORS headers and no body
\* and is never forwarded.
C14_ProxyRouting ==
    /\ (GetOrPost /\ StartsWith(request.path, ApiPrefix))
         => routed = <<DHARMASEED_BASE \o ApiBase \o Drop(request.path, Len(ApiPrefix))>>
    /\ (GetOrPost /\ StartsWith(request.path, FeedsPrefix))
         => routed = <<DHARMASEED_BASE \o request.path>>
    /\ (GetOrPost /\ ~StartsWith(request.path, ApiPrefix)
                  /\ ~StartsWith(request.path, FeedsPrefix))
         => /\ routed = <<>> /\ upstream = <<>>
            /\ request.command = "GET"
                 => reply \in {<<StaticResponse(TRUE)>>, <<StaticResponse(FALSE)>>}
            /\ request.command = "POST"
                 => (Len(reply) = 1 /\ reply[1].status = 404)
    /\ request.command = "OPTIONS"
         => /\ routed = <<>> /\ upstream = <<>>
            /\ Len(reply) = 1
            /\ reply[1].status = 200 /\ reply[1].allow_origin = "*"
            /\ reply[1].preflight /\ reply[1].body = ""

\* C15: proxy outcome mapping.  For a forwarded request one response goes
\* to the local client: when the remote succeeded, 200 with the remote's
\* Content-Type, where it sent one, its body, and Access-Control-Allow-Origin
\* *; when the remote answered an HTTP error, its status code with its
\* reason; on any other exception, before or in the remote call, 500 with the
\* exception's text.
C15_ProxyOutcome ==
    routed # <<>> =>
        /\ Len(reply) = 1
        /\ Len(upstream) <= 1
        /\ remote.kind = "ok" =>
              /\ reply[1].status = 200
              /\ remote.ctype # "none" => reply[1].ctype = remote.ctype
              /\ reply[1].body = remote.data
              /\ reply[1].allow_origin = "*"
        /\ remote.kind = "http_error" =>
              (reply[1].status = remote.code /\ reply[1].message = remote.text)
        /\ remote.kind = "exception" =>
              (reply[1].status = 500 /\ reply[1].message = remote.text)
        /\ upstream = <<>> =>
              (reply[1].status = 500 /\ reply[1].message = "invalid literal for int()")

C15_Witness ==
    /\ request.command = "POST" /\ Len(routed) = 1 /\ Len(upstream) = 1
    /\ upstream[1].data # ""
    /\ remote.kind = "http_error" /\ remote.code = 503
    /\ reply = <<send_error(503, "Service Unavailable")>>

\* Records the run has fetched that the file does not hold.
Lost == {k \in DOMAIN new_talks : Count(file.talks, new_talks[k]) = 0}

\* Ids the run has asked the details of since its last checkpoint.
SinceCheckpoint == Len(requested) - writes * save_interval

\* C16: bounded loss on interruption.  Right after a checkpoint the file
\* holds the loaded records and every record fetched so far; wherever the
\* run is, or was when it was killed, the fetched records the file lacks are
\* at most those of the ids attempted since the last checkpoint, fewer than
\* save_interval of them between two iterations and at most save_interval
\* within one, and the ids of the file include the ids of the loaded
\* snapshot.
C16_BoundedLoss ==
    pc \in {"loop", "final", "done", "killed"} =>
        /\ (pc \in {"loop", "final"} /\ i > 0 /\ i % save_interval = 0)
             => file = FileOf(SortByIdDesc(existing_talks \o new_talks))
        /\ pc # "done" =>
              /\ Cardinality(Lost) <= SinceCheckpoint
              /\ SinceCheckpoint <= save_interval
              /\ Len(requested) = i => SinceCheckpoint < save_interval
        /\ IdsOf(existing_talks) \subseteq IdsOf(file.talks)

\* The source path of a rule: its line up to the first space.
SourcePath(line) ==
    SubSeq(line, 1, (CHOOSE k \in DOMAIN line :
                        line[k] = " " /\ \A j \in 1..(k - 1) : line[j] # " ") - 1)

\* C17: redirect slug uniqueness.  Whatever the teachers, their names, ids
\* and order, no two of the rules written to _redirects have the same source
\* path.
C17_SlugsUnique ==
    pc = "written" =>
        \A j, k \in DOMAIN redirects_file :
            SourcePath(redirects_file[j]) = SourcePath(redirects_file[k]) => j = k

=============================================================================
